---- MODULE Spec2Model ----
(***************************************************************************)
(* The event-to-transition translation layer of schedviz                   *)
(* (analysis/sched_event_loader.go): the eventLoader registry, its         *)
(* threadTransitions dispatch, and the tracepoint loaders                  *)
(* LoadSchedMigrateTask, LoadSchedSwitch, LoadSchedWakeup and              *)
(* LoadSchedSwitchWithSynthetics.                                          *)
(*                                                                         *)
(* The ThreadTransitionSetBuilder, the value types and the string bank are *)
(* declared in other files of the package; they are modelled here from     *)
(* sections 3, 4.2 and 6 of the specification.                             *)
(***************************************************************************)
EXTENDS Integers, Sequences, FiniteSets

VARIABLES el, newErr, newArg, pc, ev, tts, err, ran

vars == <<el, newErr, newArg, pc, ev, tts, err, ran>>

(***************************************************************************)
(* Bounds of the model.                                                    *)
(***************************************************************************)
MaxPID == 1
MaxCPU == 1
MaxIndex == 1

PIDs == 0..MaxPID
CPUs == 0..MaxCPU
Indexes == 0..MaxIndex
Timestamps == {1000, 2000}
TaskStates == {0, 1, 2}
Prios == {120}
Comms == {"x", "y"}

(***************************************************************************)
(* Value types (spec section 3).                                           *)
(***************************************************************************)
UnknownPriority == -1
UnknownCPU == -1
UnknownCommand == "<unknown>"
UnknownState == "Unknown"
RunningState == "Running"
WaitingState == "Waiting"
SleepingState == "Sleeping"

AssertPolicy == "Assert"
Drop == "Drop"
InsertSynthetic == "InsertSynthetic"

PID(n) == n
CPUID(n) == n
Priority(n) == n

(***************************************************************************)
(* trace.Event: the property maps are partial; a Go map lookup of an       *)
(* absent key yields the zero value and ok = false.                        *)
(***************************************************************************)
HasNumber(e, f) == f \in DOMAIN e.NumberProperties
Number(e, f) == IF HasNumber(e, f) THEN e.NumberProperties[f] ELSE 0
Text(e, f) == IF f \in DOMAIN e.TextProperties THEN e.TextProperties[f] ELSE ""

(***************************************************************************)
(* Errors.                                                                 *)
(***************************************************************************)
NoError == [code |-> "OK"]
EmptyLoaderError == [code |-> "Unknown", msg |-> "an empty eventLoader cannot generate threadTransitions"]

MissingFieldError(fieldName, e) ==
    [code |-> "NotFound", field |-> fieldName, index |-> e.Index]

(***************************************************************************)
(* The transition-set builder (spec section 4.2).                          *)
(***************************************************************************)
newThreadTransitionSetBuilder(stringBank) == [tts |-> <<>>, stringBank |-> stringBank]

WithTransition(b, eventID, timestamp, pid) ==
    [b EXCEPT !.tts = Append(@,
        [EventID |-> eventID, Timestamp |-> timestamp, PID |-> pid,
         PrevCommand |-> UnknownCommand, NextCommand |-> UnknownCommand,
         PrevPriority |-> UnknownPriority, NextPriority |-> UnknownPriority,
         PrevCPU |-> UnknownCPU, NextCPU |-> UnknownCPU,
         PrevState |-> UnknownState, NextState |-> UnknownState,
         onForwardsCPUConflict |-> AssertPolicy, onBackwardsCPUConflict |-> AssertPolicy,
         onForwardsStateConflict |-> AssertPolicy, onBackwardsStateConflict |-> AssertPolicy])]

SetCurrent(b, field, value) == [b EXCEPT !.tts[Len(b.tts)][field] = value]

Intern(b, text) == [b EXCEPT !.stringBank = @ \cup {text}]

WithPrevCommand(b, c) == SetCurrent(Intern(b, c), "PrevCommand", c)
WithNextCommand(b, c) == SetCurrent(Intern(b, c), "NextCommand", c)
WithPrevPriority(b, p) == SetCurrent(b, "PrevPriority", p)
WithNextPriority(b, p) == SetCurrent(b, "NextPriority", p)
WithPrevCPU(b, c) == SetCurrent(b, "PrevCPU", c)
WithNextCPU(b, c) == SetCurrent(b, "NextCPU", c)
WithPrevState(b, s) == SetCurrent(b, "PrevState", s)
WithNextState(b, s) == SetCurrent(b, "NextState", s)
OnForwardsCPUConflict(b, p) == SetCurrent(b, "onForwardsCPUConflict", p)
OnBackwardsCPUConflict(b, p) == SetCurrent(b, "onBackwardsCPUConflict", p)
OnForwardsStateConflict(b, p) == SetCurrent(b, "onForwardsStateConflict", p)
OnBackwardsStateConflict(b, p) == SetCurrent(b, "onBackwardsStateConflict", p)

transitions(b) == b.tts

(***************************************************************************)
(* The loaders.  Each returns the error and the builder it wrote into.     *)
(***************************************************************************)
Failed(b, e) == [err |-> e, ttsb |-> b]
Loaded(b) == [err |-> NoError, ttsb |-> b]

\* LoadSchedMigrateTask with the original and destination CPUs exchanged.
LoadSchedMigrateTaskReversed(e, ttsb) ==
    IF ~HasNumber(e, "pid") THEN Failed(ttsb, MissingFieldError("pid", e))
    ELSE LET pid == Number(e, "pid")
             comm == Text(e, "comm")
             priority == IF HasNumber(e, "prio") THEN Priority(Number(e, "prio"))
                         ELSE UnknownPriority
         IN IF ~HasNumber(e, "orig_cpu") THEN Failed(ttsb, MissingFieldError("orig_cpu", e))
            ELSE IF ~HasNumber(e, "dest_cpu") THEN Failed(ttsb, MissingFieldError("dest_cpu", e))
            ELSE LET origCPU == Number(e, "orig_cpu")
                     destCPU == Number(e, "dest_cpu")
                     b0 == WithTransition(ttsb, e.Index, e.Timestamp, PID(pid))
                     b1 == WithPrevCommand(b0, comm)
                     b2 == WithNextCommand(b1, comm)
                     b3 == WithPrevPriority(b2, priority)
                     b4 == WithNextPriority(b3, priority)
                     b5 == WithPrevCPU(b4, CPUID(destCPU))
                     b6 == WithNextCPU(b5, CPUID(origCPU))
                 IN Loaded(b6)

LoadSchedMigrateTask(e, ttsb) ==
    IF ~HasNumber(e, "pid") THEN Failed(ttsb, MissingFieldError("pid", e))
    ELSE LET pid == Number(e, "pid")
             comm == Text(e, "comm")
             priority == IF HasNumber(e, "prio") THEN Priority(Number(e, "prio"))
                         ELSE UnknownPriority
         IN IF ~HasNumber(e, "orig_cpu") THEN Failed(ttsb, MissingFieldError("orig_cpu", e))
            ELSE IF ~HasNumber(e, "dest_cpu") THEN Failed(ttsb, MissingFieldError("dest_cpu", e))
            ELSE LET origCPU == Number(e, "orig_cpu")
                     destCPU == Number(e, "dest_cpu")
                     b0 == WithTransition(ttsb, e.Index, e.Timestamp, PID(pid))
                     b1 == WithPrevCommand(b0, comm)
                     b2 == WithNextCommand(b1, comm)
                     b3 == WithPrevPriority(b2, priority)
                     b4 == WithNextPriority(b3, priority)
                     b5 == WithPrevCPU(b4, CPUID(origCPU))
                     b6 == WithNextCPU(b5, CPUID(destCPU))
                 IN Loaded(b6)

\* LoadSwitchData taking only TASK_INTERRUPTIBLE (1) for a sleeping task.
LoadSwitchDataInterruptibleOnly(e) ==
    IF ~HasNumber(e, "next_pid") THEN [sd |-> <<>>, err |-> MissingFieldError("next_pid", e)]
    ELSE IF ~HasNumber(e, "prev_pid") THEN [sd |-> <<>>, err |-> MissingFieldError("prev_pid", e)]
    ELSE IF ~HasNumber(e, "prev_state") THEN [sd |-> <<>>, err |-> MissingFieldError("prev_state", e)]
    ELSE [sd |-> [NextPID |-> PID(Number(e, "next_pid")),
                  NextComm |-> Text(e, "next_comm"),
                  NextPriority |-> IF HasNumber(e, "next_prio")
                                   THEN Priority(Number(e, "next_prio"))
                                   ELSE UnknownPriority,
                  PrevPID |-> PID(Number(e, "prev_pid")),
                  PrevComm |-> Text(e, "prev_comm"),
                  PrevPriority |-> IF HasNumber(e, "prev_prio")
                                   THEN Priority(Number(e, "prev_prio"))
                                   ELSE UnknownPriority,
                  PrevState |-> IF Number(e, "prev_state") = 1
                                THEN SleepingState ELSE WaitingState],
          err |-> NoError]

LoadSwitchData(e) ==
    IF ~HasNumber(e, "next_pid") THEN [sd |-> <<>>, err |-> MissingFieldError("next_pid", e)]
    ELSE IF ~HasNumber(e, "prev_pid") THEN [sd |-> <<>>, err |-> MissingFieldError("prev_pid", e)]
    ELSE IF ~HasNumber(e, "prev_state") THEN [sd |-> <<>>, err |-> MissingFieldError("prev_state", e)]
    ELSE [sd |-> [NextPID |-> PID(Number(e, "next_pid")),
                  NextComm |-> Text(e, "next_comm"),
                  NextPriority |-> IF HasNumber(e, "next_prio")
                                   THEN Priority(Number(e, "next_prio"))
                                   ELSE UnknownPriority,
                  PrevPID |-> PID(Number(e, "prev_pid")),
                  PrevComm |-> Text(e, "prev_comm"),
                  PrevPriority |-> IF HasNumber(e, "prev_prio")
                                   THEN Priority(Number(e, "prev_prio"))
                                   ELSE UnknownPriority,
                  PrevState |-> IF Number(e, "prev_state") # 0
                                THEN SleepingState ELSE WaitingState],
          err |-> NoError]

\* LoadSchedSwitch emitting the outgoing PID's transition before the incoming PID's.
LoadSchedSwitchOutgoingFirst(e, ttsb) ==
    LET r == LoadSwitchData(e)
        sd == r.sd
    IN IF r.err # NoError THEN Failed(ttsb, r.err)
       ELSE LET b0 == WithTransition(ttsb, e.Index, e.Timestamp, sd.PrevPID)
                b1 == WithPrevCommand(b0, sd.PrevComm)
                b2 == WithNextCommand(b1, sd.PrevComm)
                b3 == WithPrevPriority(b2, sd.PrevPriority)
                b4 == WithNextPriority(b3, sd.PrevPriority)
                b5 == WithPrevCPU(b4, CPUID(e.CPU))
                b6 == WithNextCPU(b5, CPUID(e.CPU))
                b7 == WithPrevState(b6, RunningState)
                b8 == WithNextState(b7, sd.PrevState)
                a0 == WithTransition(b8, e.Index, e.Timestamp, sd.NextPID)
                a1 == WithPrevCommand(a0, sd.NextComm)
                a2 == WithNextCommand(a1, sd.NextComm)
                a3 == WithPrevPriority(a2, sd.NextPriority)
                a4 == WithNextPriority(a3, sd.NextPriority)
                a5 == WithPrevCPU(a4, CPUID(e.CPU))
                a6 == WithNextCPU(a5, CPUID(e.CPU))
                a7 == WithNextState(a6, RunningState)
            IN Loaded(a7)

LoadSchedSwitch(e, ttsb) ==
    LET r == LoadSwitchData(e)
        sd == r.sd
    IN IF r.err # NoError THEN Failed(ttsb, r.err)
       ELSE LET a0 == WithTransition(ttsb, e.Index, e.Timestamp, sd.NextPID)
                a1 == WithPrevCommand(a0, sd.NextComm)
                a2 == WithNextCommand(a1, sd.NextComm)
                a3 == WithPrevPriority(a2, sd.NextPriority)
                a4 == WithNextPriority(a3, sd.NextPriority)
                a5 == WithPrevCPU(a4, CPUID(e.CPU))
                a6 == WithNextCPU(a5, CPUID(e.CPU))
                a7 == WithNextState(a6, RunningState)
                b0 == WithTransition(a7, e.Index, e.Timestamp, sd.PrevPID)
                b1 == WithPrevCommand(b0, sd.PrevComm)
                b2 == WithNextCommand(b1, sd.PrevComm)
                b3 == WithPrevPriority(b2, sd.PrevPriority)
                b4 == WithNextPriority(b3, sd.PrevPriority)
                b5 == WithPrevCPU(b4, CPUID(e.CPU))
                b6 == WithNextCPU(b5, CPUID(e.CPU))
                b7 == WithPrevState(b6, RunningState)
                b8 == WithNextState(b7, sd.PrevState)
            IN Loaded(b8)

\* LoadSchedWakeup reporting a missing target_cpu under the name of pid.
LoadSchedWakeupNamingPid(e, ttsb) ==
    IF ~HasNumber(e, "pid") THEN Failed(ttsb, MissingFieldError("pid", e))
    ELSE LET pid == Number(e, "pid")
             comm == Text(e, "comm")
             priority == IF HasNumber(e, "prio") THEN Priority(Number(e, "prio"))
                         ELSE UnknownPriority
         IN IF ~HasNumber(e, "target_cpu")
            THEN Failed(ttsb, MissingFieldError("pid", e))
            ELSE LET targetCPU == Number(e, "target_cpu")
                     b0 == WithTransition(ttsb, e.Index, e.Timestamp, PID(pid))
                     b1 == WithPrevCommand(b0, comm)
                     b2 == WithNextCommand(b1, comm)
                     b3 == WithPrevPriority(b2, priority)
                     b4 == WithNextPriority(b3, priority)
                     b5 == WithPrevCPU(b4, CPUID(targetCPU))
                     b6 == WithNextCPU(b5, CPUID(targetCPU))
                     b7 == WithNextState(b6, WaitingState)
                     b8 == OnBackwardsCPUConflict(b7, Drop)
                     b9 == OnForwardsCPUConflict(b8, Drop)
                     b10 == OnForwardsStateConflict(b9, Drop)
                 IN Loaded(b10)

\* LoadSchedWakeup relaxing the backwards state assertion as well.
LoadSchedWakeupDroppingAll(e, ttsb) ==
    IF ~HasNumber(e, "pid") THEN Failed(ttsb, MissingFieldError("pid", e))
    ELSE LET pid == Number(e, "pid")
             comm == Text(e, "comm")
             priority == IF HasNumber(e, "prio") THEN Priority(Number(e, "prio"))
                         ELSE UnknownPriority
         IN IF ~HasNumber(e, "target_cpu")
            THEN Failed(ttsb, MissingFieldError("target_cpu", e))
            ELSE LET targetCPU == Number(e, "target_cpu")
                     b0 == WithTransition(ttsb, e.Index, e.Timestamp, PID(pid))
                     b1 == WithPrevCommand(b0, comm)
                     b2 == WithNextCommand(b1, comm)
                     b3 == WithPrevPriority(b2, priority)
                     b4 == WithNextPriority(b3, priority)
                     b5 == WithPrevCPU(b4, CPUID(targetCPU))
                     b6 == WithNextCPU(b5, CPUID(targetCPU))
                     b7 == WithNextState(b6, WaitingState)
                     b8 == OnBackwardsCPUConflict(b7, Drop)
                     b9 == OnForwardsCPUConflict(b8, Drop)
                     b10 == OnForwardsStateConflict(b9, Drop)
                     b11 == OnBackwardsStateConflict(b10, Drop)
                 IN Loaded(b11)

LoadSchedWakeup(e, ttsb) ==
    IF ~HasNumber(e, "pid") THEN Failed(ttsb, MissingFieldError("pid", e))
    ELSE LET pid == Number(e, "pid")
             comm == Text(e, "comm")
             priority == IF HasNumber(e, "prio") THEN Priority(Number(e, "prio"))
                         ELSE UnknownPriority
         IN IF ~HasNumber(e, "target_cpu")
            THEN Failed(ttsb, MissingFieldError("target_cpu", e))
            ELSE LET targetCPU == Number(e, "target_cpu")
                     b0 == WithTransition(ttsb, e.Index, e.Timestamp, PID(pid))
                     b1 == WithPrevCommand(b0, comm)
                     b2 == WithNextCommand(b1, comm)
                     b3 == WithPrevPriority(b2, priority)
                     b4 == WithNextPriority(b3, priority)
                     b5 == WithPrevCPU(b4, CPUID(targetCPU))
                     b6 == WithNextCPU(b5, CPUID(targetCPU))
                     b7 == WithNextState(b6, WaitingState)
                     b8 == OnBackwardsCPUConflict(b7, Drop)
                     b9 == OnForwardsCPUConflict(b8, Drop)
                     b10 == OnForwardsStateConflict(b9, Drop)
                 IN Loaded(b10)

\* LoadSchedSwitchWithSynthetics emitting the outgoing PID's transition first.
LoadSchedSwitchWithSyntheticsOutgoingFirst(e, ttsb) ==
    LET r == LoadSwitchData(e)
        sd == r.sd
    IN IF r.err # NoError THEN Failed(ttsb, r.err)
       ELSE LET b0 == WithTransition(ttsb, e.Index, e.Timestamp, sd.PrevPID)
                b1 == WithPrevCommand(b0, sd.PrevComm)
                b2 == WithNextCommand(b1, sd.PrevComm)
                b3 == WithPrevPriority(b2, sd.PrevPriority)
                b4 == WithNextPriority(b3, sd.PrevPriority)
                b5 == WithPrevCPU(b4, CPUID(e.CPU))
                b6 == WithNextCPU(b5, CPUID(e.CPU))
                b7 == WithPrevState(b6, RunningState)
                b8 == WithNextState(b7, sd.PrevState)
                b9 == OnForwardsCPUConflict(b8, InsertSynthetic)
                b10 == OnBackwardsCPUConflict(b9, InsertSynthetic)
                b11 == OnForwardsStateConflict(b10, InsertSynthetic)
                b12 == OnBackwardsStateConflict(b11, InsertSynthetic)
                a0 == WithTransition(b12, e.Index, e.Timestamp, sd.NextPID)
                a1 == WithPrevCommand(a0, sd.NextComm)
                a2 == WithNextCommand(a1, sd.NextComm)
                a3 == WithPrevPriority(a2, sd.NextPriority)
                a4 == WithNextPriority(a3, sd.NextPriority)
                a5 == WithPrevCPU(a4, CPUID(e.CPU))
                a6 == WithNextCPU(a5, CPUID(e.CPU))
                a7 == WithPrevState(a6, WaitingState)
                a8 == WithNextState(a7, RunningState)
                a9 == OnForwardsCPUConflict(a8, InsertSynthetic)
                a10 == OnBackwardsCPUConflict(a9, InsertSynthetic)
                a11 == OnForwardsStateConflict(a10, InsertSynthetic)
                a12 == OnBackwardsStateConflict(a11, InsertSynthetic)
            IN Loaded(a12)

\* LoadSchedSwitchWithSynthetics leaving the outgoing PID's backwards state policy unset.
LoadSchedSwitchWithSyntheticsStrictBackwards(e, ttsb) ==
    LET r == LoadSwitchData(e)
        sd == r.sd
    IN IF r.err # NoError THEN Failed(ttsb, r.err)
       ELSE LET a0 == WithTransition(ttsb, e.Index, e.Timestamp, sd.NextPID)
                a1 == WithPrevCommand(a0, sd.NextComm)
                a2 == WithNextCommand(a1, sd.NextComm)
                a3 == WithPrevPriority(a2, sd.NextPriority)
                a4 == WithNextPriority(a3, sd.NextPriority)
                a5 == WithPrevCPU(a4, CPUID(e.CPU))
                a6 == WithNextCPU(a5, CPUID(e.CPU))
                a7 == WithPrevState(a6, WaitingState)
                a8 == WithNextState(a7, RunningState)
                a9 == OnForwardsCPUConflict(a8, InsertSynthetic)
                a10 == OnBackwardsCPUConflict(a9, InsertSynthetic)
                a11 == OnForwardsStateConflict(a10, InsertSynthetic)
                a12 == OnBackwardsStateConflict(a11, InsertSynthetic)
                b0 == WithTransition(a12, e.Index, e.Timestamp, sd.PrevPID)
                b1 == WithPrevCommand(b0, sd.PrevComm)
                b2 == WithNextCommand(b1, sd.PrevComm)
                b3 == WithPrevPriority(b2, sd.PrevPriority)
                b4 == WithNextPriority(b3, sd.PrevPriority)
                b5 == WithPrevCPU(b4, CPUID(e.CPU))
                b6 == WithNextCPU(b5, CPUID(e.CPU))
                b7 == WithPrevState(b6, RunningState)
                b8 == WithNextState(b7, sd.PrevState)
                b9 == OnForwardsCPUConflict(b8, InsertSynthetic)
                b10 == OnBackwardsCPUConflict(b9, InsertSynthetic)
                b11 == OnForwardsStateConflict(b10, InsertSynthetic)
            IN Loaded(b11)

LoadSchedSwitchWithSynthetics(e, ttsb) ==
    LET r == LoadSwitchData(e)
        sd == r.sd
    IN IF r.err # NoError THEN Failed(ttsb, r.err)
       ELSE LET a0 == WithTransition(ttsb, e.Index, e.Timestamp, sd.NextPID)
                a1 == WithPrevCommand(a0, sd.NextComm)
                a2 == WithNextCommand(a1, sd.NextComm)
                a3 == WithPrevPriority(a2, sd.NextPriority)
                a4 == WithNextPriority(a3, sd.NextPriority)
                a5 == WithPrevCPU(a4, CPUID(e.CPU))
                a6 == WithNextCPU(a5, CPUID(e.CPU))
                a7 == WithPrevState(a6, WaitingState)
                a8 == WithNextState(a7, RunningState)
                a9 == OnForwardsCPUConflict(a8, InsertSynthetic)
                a10 == OnBackwardsCPUConflict(a9, InsertSynthetic)
                a11 == OnForwardsStateConflict(a10, InsertSynthetic)
                a12 == OnBackwardsStateConflict(a11, InsertSynthetic)
                b0 == WithTransition(a12, e.Index, e.Timestamp, sd.PrevPID)
                b1 == WithPrevCommand(b0, sd.PrevComm)
                b2 == WithNextCommand(b1, sd.PrevComm)
                b3 == WithPrevPriority(b2, sd.PrevPriority)
                b4 == WithNextPriority(b3, sd.PrevPriority)
                b5 == WithPrevCPU(b4, CPUID(e.CPU))
                b6 == WithNextCPU(b5, CPUID(e.CPU))
                b7 == WithPrevState(b6, RunningState)
                b8 == WithNextState(b7, sd.PrevState)
                b9 == OnForwardsCPUConflict(b8, InsertSynthetic)
                b10 == OnBackwardsCPUConflict(b9, InsertSynthetic)
                b11 == OnForwardsStateConflict(b10, InsertSynthetic)
                b12 == OnBackwardsStateConflict(b11, InsertSynthetic)
            IN Loaded(b12)

(***************************************************************************)
(* Loader sets.  A loader map takes tracepoint names to loader functions,  *)
(* a function value being represented by the function's name.              *)
(***************************************************************************)
DefaultEventLoaders ==
    [n \in {"sched_migrate_task", "sched_switch", "sched_wakeup", "sched_wakeup_new"} |->
        CASE n = "sched_migrate_task" -> "LoadSchedMigrateTask"
          [] n = "sched_switch" -> "LoadSchedSwitch"
          [] n = "sched_wakeup" -> "LoadSchedWakeup"
          [] n = "sched_wakeup_new" -> "LoadSchedWakeup"]

SwitchOnlyLoaders == [n \in {"sched_switch"} |-> "LoadSchedSwitchWithSynthetics"]

CallLoader(loader, e, ttsb) ==
    CASE loader = "LoadSchedMigrateTask" -> LoadSchedMigrateTask(e, ttsb)
      [] loader = "LoadSchedSwitch" -> LoadSchedSwitch(e, ttsb)
      [] loader = "LoadSchedWakeup" -> LoadSchedWakeup(e, ttsb)
      [] loader = "LoadSchedSwitchWithSynthetics" -> LoadSchedSwitchWithSynthetics(e, ttsb)

(***************************************************************************)
(* The registry.  A nil map and an empty map both have length 0.           *)
(***************************************************************************)
NilLoaders == [nil |-> TRUE]
EmptyLoaders == [n \in {} |-> "none"]
Nil == [nil |-> TRUE]

LenLoaders(loaders) == IF loaders = NilLoaders THEN 0 ELSE Cardinality(DOMAIN loaders)

\* newEventLoader rejecting only a nil map.
newEventLoaderNilOnly(loaders, stringBank) ==
    IF loaders = NilLoaders
    THEN [el |-> Nil, err |-> EmptyLoaderError]
    ELSE [el |-> [stringBank |-> stringBank, loaders |-> loaders], err |-> NoError]

newEventLoader(loaders, stringBank) ==
    IF LenLoaders(loaders) = 0
    THEN [el |-> Nil, err |-> EmptyLoaderError]
    ELSE [el |-> [stringBank |-> stringBank, loaders |-> loaders], err |-> NoError]

\* threadTransitions without the check of ev.Clipped.
threadTransitionsOfClipped(reg, e) ==
    LET ttsb == newThreadTransitionSetBuilder(reg.stringBank)
    IN IF e.Name \notin DOMAIN reg.loaders
       THEN [tts |-> <<>>, err |-> NoError, ran |-> "none", el |-> reg]
       ELSE LET loader == reg.loaders[e.Name]
                r == CallLoader(loader, e, ttsb)
            IN IF r.err # NoError
               THEN [tts |-> <<>>, err |-> r.err, ran |-> loader,
                     el |-> [reg EXCEPT !.stringBank = r.ttsb.stringBank]]
               ELSE [tts |-> transitions(r.ttsb), err |-> NoError, ran |-> loader,
                     el |-> [reg EXCEPT !.stringBank = r.ttsb.stringBank]]

\* threadTransitions with the builder hoisted into the registry and reused
\* by the next call instead of being made anew.
threadTransitionsReusingBuilder(reg, e) ==
    IF e.Clipped
    THEN [tts |-> <<>>, err |-> NoError, ran |-> "none", el |-> reg]
    ELSE LET ttsb == IF "ttsb" \in DOMAIN reg
                     THEN [tts |-> reg.ttsb, stringBank |-> reg.stringBank]
                     ELSE newThreadTransitionSetBuilder(reg.stringBank)
         IN IF e.Name \notin DOMAIN reg.loaders
            THEN [tts |-> <<>>, err |-> NoError, ran |-> "none", el |-> reg]
            ELSE LET loader == reg.loaders[e.Name]
                     r == CallLoader(loader, e, ttsb)
                     after == [stringBank |-> r.ttsb.stringBank, loaders |-> reg.loaders,
                               ttsb |-> r.ttsb.tts]
                 IN IF r.err # NoError
                    THEN [tts |-> <<>>, err |-> r.err, ran |-> loader, el |-> after]
                    ELSE [tts |-> transitions(r.ttsb), err |-> NoError, ran |-> loader,
                          el |-> after]

\* The returned list and error, the loader that was run (if any), and the
\* registry after the call: the string bank el.stringBank points to is
\* written by the builder.
threadTransitions(reg, e) ==
    IF e.Clipped
    THEN [tts |-> <<>>, err |-> NoError, ran |-> "none", el |-> reg]
    ELSE LET ttsb == newThreadTransitionSetBuilder(reg.stringBank)
         IN IF e.Name \notin DOMAIN reg.loaders
            THEN [tts |-> <<>>, err |-> NoError, ran |-> "none", el |-> reg]
            ELSE LET loader == reg.loaders[e.Name]
                     r == CallLoader(loader, e, ttsb)
                 IN IF r.err # NoError
                    THEN [tts |-> <<>>, err |-> r.err, ran |-> loader,
                          el |-> [reg EXCEPT !.stringBank = r.ttsb.stringBank]]
                    ELSE [tts |-> transitions(r.ttsb), err |-> NoError, ran |-> loader,
                          el |-> [reg EXCEPT !.stringBank = r.ttsb.stringBank]]

(***************************************************************************)
(* Inputs.                                                                 *)
(***************************************************************************)
Names == {"sched_migrate_task", "sched_switch", "sched_wakeup", "sched_wakeup_new",
          "sched_process_exit"}

PIDFields == {"pid", "next_pid", "prev_pid"}
CPUFields == {"orig_cpu", "dest_cpu", "target_cpu"}
PrioFields == {"prio", "next_prio", "prev_prio"}

NumberFields(name) ==
    CASE name = "sched_migrate_task" -> {"pid", "prio", "orig_cpu", "dest_cpu"}
      [] name = "sched_switch" -> {"next_pid", "next_prio", "prev_pid", "prev_prio", "prev_state"}
      [] name = "sched_wakeup" -> {"pid", "prio", "target_cpu"}
      [] name = "sched_wakeup_new" -> {"pid", "prio", "target_cpu"}
      [] OTHER -> {"pid"}

TextFields(name) ==
    IF name = "sched_switch" THEN {"next_comm", "prev_comm"} ELSE {"comm"}

FieldValues(f) ==
    IF f \in PIDFields THEN PIDs
    ELSE IF f \in CPUFields THEN CPUs
    ELSE IF f \in PrioFields THEN Prios
    ELSE TaskStates

NumberMaps(name) ==
    UNION { {m \in [D -> PIDs \cup CPUs \cup Prios \cup TaskStates] :
                \A f \in D : m[f] \in FieldValues(f)} : D \in SUBSET NumberFields(name) }

TextMaps(name) == UNION { [D -> Comms] : D \in SUBSET TextFields(name) }

LoaderMaps == {NilLoaders, EmptyLoaders, DefaultEventLoaders, SwitchOnlyLoaders}

\* The caller's string bank may already hold strings when the registry is built.
StringBanks == {{}, {"x"}}

NoEvent == [none |-> TRUE]
NoArg == [none |-> TRUE]

(***************************************************************************)
(* The state machine.                                                      *)
(***************************************************************************)
Init ==
    /\ el = Nil
    /\ newErr = NoError
    /\ newArg = NoArg
    /\ pc = "new"
    /\ ev = NoEvent
    /\ tts = <<>>
    /\ err = NoError
    /\ ran = "none"

NewEventLoader ==
    /\ pc = "new"
    /\ \E loaders \in LoaderMaps, stringBank \in StringBanks :
          LET r == newEventLoader(loaders, stringBank)
          IN /\ el' = r.el
             /\ newErr' = r.err
             /\ newArg' = [loaders |-> loaders, stringBank |-> stringBank]
             /\ pc' = IF r.err = NoError THEN "ready" ELSE "new"
    /\ UNCHANGED <<ev, tts, err, ran>>

ThreadTransitions ==
    /\ pc = "ready"
    /\ \E name \in Names, index \in Indexes, timestamp \in Timestamps, cpu \in CPUs,
          clipped \in BOOLEAN :
         \E np \in NumberMaps(name), tp \in TextMaps(name) :
          LET e == [Index |-> index, Timestamp |-> timestamp, CPU |-> cpu,
                    Clipped |-> clipped, Name |-> name,
                    NumberProperties |-> np, TextProperties |-> tp]
              r == threadTransitions(el, e)
          IN /\ ev' = e
             /\ tts' = r.tts
             /\ err' = r.err
             /\ ran' = r.ran
             /\ el' = r.el
             /\ pc' = "returned"
    /\ UNCHANGED <<newErr, newArg>>

\* The caller takes ownership of the returned list (spec section 3,
\* lifecycle); nothing of the call remains in the registry's hands.
TakeTransitions ==
    /\ pc = "returned"
    /\ pc' = "ready"
    /\ ev' = NoEvent
    /\ tts' = <<>>
    /\ err' = NoError
    /\ ran' = "none"
    /\ UNCHANGED <<el, newErr, newArg>>

Next == NewEventLoader \/ ThreadTransitions \/ TakeTransitions

Spec == Init /\ [][Next]_vars

(***************************************************************************)
(* Vocabulary of the properties.                                           *)
(***************************************************************************)
Returned == pc = "returned"

RequiredFields(name) ==
    CASE name = "sched_migrate_task" -> {"pid", "orig_cpu", "dest_cpu"}
      [] name = "sched_switch" -> {"next_pid", "prev_pid", "prev_state"}
      [] name = "sched_wakeup" -> {"pid", "target_cpu"}
      [] name = "sched_wakeup_new" -> {"pid", "target_cpu"}
      [] OTHER -> {}

MissingRequired(e) == RequiredFields(e.Name) \ DOMAIN e.NumberProperties

Registered(e) == e.Name \in DOMAIN el.loaders

\* The event of the last call reached the loader function fn with every
\* required field present.
Interprets(fn) ==
    /\ Returned
    /\ ~ev.Clipped
    /\ Registered(ev)
    /\ el.loaders[ev.Name] = fn
    /\ MissingRequired(ev) = {}

PriorityOf(e, f) == IF f \in DOMAIN e.NumberProperties THEN e.NumberProperties[f] ELSE UnknownPriority

Policies(t) == <<t.onForwardsCPUConflict, t.onBackwardsCPUConflict,
                 t.onForwardsStateConflict, t.onBackwardsStateConflict>>

AllPolicies(t, p) == Policies(t) = <<p, p, p, p>>

\* A transition without its four conflict policies.
Channels(t) ==
    [EventID |-> t.EventID, Timestamp |-> t.Timestamp, PID |-> t.PID,
     PrevCommand |-> t.PrevCommand, NextCommand |-> t.NextCommand,
     PrevPriority |-> t.PrevPriority, NextPriority |-> t.NextPriority,
     PrevCPU |-> t.PrevCPU, NextCPU |-> t.NextCPU,
     PrevState |-> t.PrevState, NextState |-> t.NextState]

ChannelsOf(list) == [i \in DOMAIN list |-> Channels(list[i])]

\* Two adjacent values of a channel conflict when both are known and differ.
Conflict(a, b, unknown) == a # unknown /\ b # unknown /\ a # b

(***************************************************************************)
(* C1: a non-clipped event of a registered tracepoint that lacks a         *)
(* required numeric field fails with a missing-field error naming a        *)
(* required field that is absent and carrying the event's Index, and no    *)
(* transitions are returned.                                               *)
(***************************************************************************)
C1_MissingField ==
    (Returned /\ ~ev.Clipped /\ Registered(ev) /\ MissingRequired(ev) # {})
    => /\ err.code = "NotFound"
       /\ DOMAIN err = {"code", "field", "index"}
       /\ err.field \in MissingRequired(ev)
       /\ err.index = ev.Index
       /\ tts = <<>>

C1_Witness ==
    /\ Returned /\ ~ev.Clipped /\ Registered(ev)
    /\ Cardinality(MissingRequired(ev)) = 2
    /\ ev.Index # ev.CPU
    /\ err.code = "NotFound"

(***************************************************************************)
(* C2: a clipped event, and a non-clipped event of a tracepoint without a  *)
(* registered loader, give an empty list and no error, and no loader runs. *)
(***************************************************************************)
C2_SilentSkip ==
    (Returned /\ (ev.Clipped \/ ~Registered(ev)))
    => /\ tts = <<>>
       /\ err = NoError
       /\ ran = "none"

C2_Witness ==
    /\ Returned /\ ev.Clipped /\ Registered(ev)
    /\ MissingRequired(ev) # {}
    /\ tts = <<>> /\ err = NoError

(***************************************************************************)
(* C3: LoadSchedSwitch on a sched_switch event with next_pid, prev_pid and *)
(* prev_state emits exactly two transitions with the event's index and     *)
(* timestamp, the incoming PID first (Unknown -> Running), then the        *)
(* outgoing PID (Running -> Waiting when prev_state = 0, Sleeping          *)
(* otherwise), both on the reporting CPU before and after, command and     *)
(* priority equal before and after (Unknown priority when the prio field   *)
(* is absent), all four policies Assert.                                   *)
(***************************************************************************)
C3_SchedSwitch ==
    Interprets("LoadSchedSwitch")
    => /\ err = NoError
       /\ Len(tts) = 2
       /\ \A i \in 1..2 :
             /\ tts[i].EventID = ev.Index
             /\ tts[i].Timestamp = ev.Timestamp
             /\ tts[i].PrevCPU = ev.CPU
             /\ tts[i].NextCPU = ev.CPU
             /\ tts[i].PrevCommand = tts[i].NextCommand
             /\ tts[i].PrevPriority = tts[i].NextPriority
             /\ AllPolicies(tts[i], AssertPolicy)
       /\ tts[1].PID = ev.NumberProperties["next_pid"]
       /\ tts[1].PrevState = UnknownState
       /\ tts[1].NextState = RunningState
       /\ tts[1].NextPriority = PriorityOf(ev, "next_prio")
       /\ tts[2].PID = ev.NumberProperties["prev_pid"]
       /\ tts[2].PrevState = RunningState
       /\ tts[2].NextState = IF ev.NumberProperties["prev_state"] = 0
                             THEN WaitingState ELSE SleepingState
       /\ tts[2].NextPriority = PriorityOf(ev, "prev_prio")

C3_Witness ==
    /\ Interprets("LoadSchedSwitch")
    /\ ev.NumberProperties["prev_state"] = 2
    /\ ev.NumberProperties["next_pid"] # ev.NumberProperties["prev_pid"]
    /\ "next_prio" \in DOMAIN ev.NumberProperties
    /\ "prev_prio" \notin DOMAIN ev.NumberProperties
    /\ Len(tts) = 2

(***************************************************************************)
(* C4 as stated: LoadSchedSwitchWithSynthetics emits the transitions       *)
(* LoadSchedSwitch emits for the same event, equal in number, order, PID,  *)
(* index, timestamp and every previous and next channel value, differing   *)
(* only in the four policies; with a required field missing both fail with *)
(* the same error.                                                         *)
(***************************************************************************)
SwitchReference(e) == LoadSchedSwitch(e, newThreadTransitionSetBuilder({}))

C4_SameAsSwitch ==
    (Returned /\ ran = "LoadSchedSwitchWithSynthetics")
    => /\ err = SwitchReference(ev).err
       /\ err = NoError =>
             ChannelsOf(tts) = ChannelsOf(transitions(SwitchReference(ev).ttsb))

(***************************************************************************)
(* C4 as amended: the two agree in number, order, PID, index, timestamp    *)
(* and every channel value except the incoming PID's previous state, which *)
(* LoadSchedSwitchWithSynthetics sets to Waiting and LoadSchedSwitch       *)
(* leaves Unknown; with a required field missing both fail with the same   *)
(* error.                                                                  *)
(***************************************************************************)
C4_SameButIncomingPrevState ==
    (Returned /\ ran = "LoadSchedSwitchWithSynthetics")
    => LET ref == SwitchReference(ev)
           reft == transitions(ref.ttsb)
       IN /\ err = ref.err
          /\ (MissingRequired(ev) # {}) <=> (err # NoError)
          /\ err = NoError =>
                /\ Len(tts) = 2
                /\ Len(reft) = 2
                /\ tts[1].PrevState = WaitingState
                /\ reft[1].PrevState = UnknownState
                /\ ChannelsOf([tts EXCEPT ![1].PrevState = UnknownState]) = ChannelsOf(reft)
                /\ \A i \in 1..2 : Policies(tts[i]) # Policies(reft[i])

C4_Witness ==
    /\ Interprets("LoadSchedSwitchWithSynthetics")
    /\ Len(tts) = 2
    /\ tts[1].PID # tts[2].PID
    /\ tts[1].NextCommand # tts[2].NextCommand
    /\ tts[1].NextPriority # tts[2].NextPriority

(***************************************************************************)
(* C5: LoadSchedWakeup on a sched_wakeup or sched_wakeup_new event with    *)
(* pid and target_cpu emits exactly one transition, for that pid, on       *)
(* target_cpu before and after, Unknown -> Waiting, command and priority   *)
(* equal before and after (Unknown priority when prio is absent), Drop on  *)
(* forwards CPU, backwards CPU and forwards state, Assert on backwards     *)
(* state.                                                                  *)
(***************************************************************************)
C5_SchedWakeup ==
    Interprets("LoadSchedWakeup")
    => /\ err = NoError
       /\ Len(tts) = 1
       /\ tts[1].PID = ev.NumberProperties["pid"]
       /\ tts[1].PrevCPU = ev.NumberProperties["target_cpu"]
       /\ tts[1].NextCPU = ev.NumberProperties["target_cpu"]
       /\ tts[1].PrevState = UnknownState
       /\ tts[1].NextState = WaitingState
       /\ tts[1].PrevCommand = tts[1].NextCommand
       /\ tts[1].PrevPriority = tts[1].NextPriority
       /\ tts[1].NextPriority = PriorityOf(ev, "prio")
       /\ tts[1].onForwardsCPUConflict = Drop
       /\ tts[1].onBackwardsCPUConflict = Drop
       /\ tts[1].onForwardsStateConflict = Drop
       /\ tts[1].onBackwardsStateConflict = AssertPolicy

C5_Witness ==
    /\ Interprets("LoadSchedWakeup")
    /\ ev.Name = "sched_wakeup_new"
    /\ ev.NumberProperties["target_cpu"] # ev.CPU
    /\ "prio" \notin DOMAIN ev.NumberProperties
    /\ Len(tts) = 1

(***************************************************************************)
(* C6: each of the two transitions LoadSchedSwitchWithSynthetics emits has *)
(* InsertSynthetic on all four policies, and every transition a registry   *)
(* built from SwitchOnlyLoaders returns has InsertSynthetic on all four.   *)
(***************************************************************************)
C6_AllInsertSynthetic ==
    /\ Interprets("LoadSchedSwitchWithSynthetics")
       => /\ Len(tts) = 2
          /\ \A i \in 1..2 : AllPolicies(tts[i], InsertSynthetic)
    /\ (Returned /\ el.loaders = SwitchOnlyLoaders)
       => /\ ran \in {"none", "LoadSchedSwitchWithSynthetics"}
          /\ \A i \in DOMAIN tts : AllPolicies(tts[i], InsertSynthetic)

C6_Witness ==
    /\ Interprets("LoadSchedSwitchWithSynthetics")
    /\ el.loaders = SwitchOnlyLoaders
    /\ Len(tts) = 2
    /\ tts[2].NextState = SleepingState

(***************************************************************************)
(* C7: LoadSchedMigrateTask on a sched_migrate_task event with pid,        *)
(* orig_cpu and dest_cpu emits exactly one transition, for that pid, from  *)
(* orig_cpu to dest_cpu, command comm before and after, priority prio      *)
(* before and after (Unknown when prio is absent; an absent comm or prio   *)
(* is no error), state Unknown before and after, all four policies Assert. *)
(***************************************************************************)
C7_SchedMigrateTask ==
    Interprets("LoadSchedMigrateTask")
    => /\ err = NoError
       /\ Len(tts) = 1
       /\ tts[1].PID = ev.NumberProperties["pid"]
       /\ tts[1].PrevCPU = ev.NumberProperties["orig_cpu"]
       /\ tts[1].NextCPU = ev.NumberProperties["dest_cpu"]
       /\ tts[1].PrevCommand = Text(ev, "comm")
       /\ tts[1].NextCommand = Text(ev, "comm")
       /\ tts[1].PrevPriority = PriorityOf(ev, "prio")
       /\ tts[1].NextPriority = PriorityOf(ev, "prio")
       /\ tts[1].PrevState = UnknownState
       /\ tts[1].NextState = UnknownState
       /\ AllPolicies(tts[1], AssertPolicy)

C7_Witness ==
    /\ Interprets("LoadSchedMigrateTask")
    /\ ev.NumberProperties["orig_cpu"] # ev.NumberProperties["dest_cpu"]
    /\ DOMAIN ev.TextProperties = {}
    /\ "prio" \notin DOMAIN ev.NumberProperties
    /\ Len(tts) = 1

(***************************************************************************)
(* C8: the list and error a call returns are those a freshly constructed   *)
(* registry with the same loaders returns for the same event, whatever     *)
(* calls came before, and the registry's loader mapping is the one it was  *)
(* constructed with.                                                       *)
(***************************************************************************)
C8_HistoryIndependent ==
    Returned
    => /\ el.loaders = newArg.loaders
       /\ \A bank \in {{}, newArg.stringBank, el.stringBank} :
             LET fresh == newEventLoader(newArg.loaders, bank).el
                 r == threadTransitions(fresh, ev)
             IN /\ tts = r.tts
                /\ err = r.err

\* A successful call on a registry whose string bank holds a string that
\* neither this event nor the constructor put there: an earlier call
\* succeeded on another event.
C8_Witness ==
    /\ Returned
    /\ err = NoError
    /\ tts # <<>>
    /\ \E text \in el.stringBank :
          /\ text \notin newArg.stringBank
          /\ \A i \in DOMAIN tts : text \notin {tts[i].PrevCommand, tts[i].NextCommand}

C10_SelfSwitchConsistent ==
    ((Interprets("LoadSchedSwitch") \/ Interprets("LoadSchedSwitchWithSynthetics"))
        /\ ev.NumberProperties["next_pid"] = ev.NumberProperties["prev_pid"])
    => /\ Len(tts) = 2
       /\ tts[1].PID = ev.NumberProperties["next_pid"]
       /\ tts[2].PID = tts[1].PID
       /\ tts[1].Timestamp = tts[2].Timestamp
       /\ tts[1].EventID = tts[2].EventID
       /\ tts[1].NextState = RunningState
       /\ tts[2].PrevState = RunningState
       /\ tts[1].NextCPU = tts[2].PrevCPU
       /\ ~Conflict(tts[1].NextState, tts[2].PrevState, UnknownState)
       /\ ~Conflict(tts[1].NextCPU, tts[2].PrevCPU, UnknownCPU)

C10_Witness ==
    /\ Interprets("LoadSchedSwitchWithSynthetics")
    /\ ev.NumberProperties["next_pid"] = ev.NumberProperties["prev_pid"]
    /\ Len(tts) = 2
    /\ tts[1].PID = tts[2].PID
    /\ tts[2].NextState = WaitingState

====
